---- MODULE Spec2Model ----
(***************************************************************************)
(* Connection layer of the Note Relay UI: LocalConnection                  *)
(* (ui/src/core/connection-local.js) driven by the application controller  *)
(* (ui/src/core/app.js).  JavaScript runs each handler to its next await,  *)
(* so one action is one run-to-completion step: from the event that        *)
(* resumes a function up to the next fetch / timer it waits on.            *)
(***************************************************************************)
EXTENDS Integers, Sequences, FiniteSets, TLC

\* ---- bounds of the model ------------------------------------------------
\* invocations from outside in one behaviour: connect triggers, application
\* entry points and conn.disconnect() calls together
MaxOps == 2

\* longest string passed to a hasher when it is called directly
MaxStrLen == 2

\* ---- values ---------------------------------------------------------------
\* JavaScript null; strings are sequences of one-character strings, so null
\* is distinct from every password and from every hex digest.
Null == << >>

\* The secrets the user may type into #password-input (never empty here: the
\* empty string is the early return of connectToVault).
Passwords == { <<"a">>, <<"b", "a">> }

\* The secret the vault owner configured in the plugin.
VaultPassword == <<"a">>

VaultFiles == << "a.md" >>
DailyNotePath == "daily.md"

\* ---- LocalConnection.hashString -----------------------------------------
\* TextEncoder.encode on the characters the model uses (ASCII).
CharCode(c) ==
    CASE c = "a" -> 97
      [] c = "b" -> 98
      [] c = "p" -> 112
      [] OTHER -> 63

Encode(str) == [i \in 1..Len(str) |-> CharCode(str[i])]

\* crypto.subtle.digest: a deterministic function from bytes to a fixed
\* number of bytes.  SHA-256 itself is outside the model; a one-byte
\* multiplicative digest stands for it.
RECURSIVE DigestFold(_, _)
DigestFold(h, bytes) ==
    IF bytes = << >> THEN h
    ELSE DigestFold((h * 31 + Head(bytes)) % 256, Tail(bytes))

Digest(bytes) == << DigestFold(17, bytes) >>

HexDigits ==
    << "0", "1", "2", "3", "4", "5", "6", "7",
       "8", "9", "a", "b", "c", "d", "e", "f" >>

\* b.toString(16).padStart(2, '0')
HexByte(b) == << HexDigits[(b \div 16) + 1], HexDigits[(b % 16) + 1] >>

RECURSIVE JoinHex(_)
JoinHex(bytes) ==
    IF bytes = << >> THEN << >>
    ELSE HexByte(Head(bytes)) \o JoinHex(Tail(bytes))

\* A hasher that returns its input: the credential would be stored and sent
\* in clear.
hashStringPlain(str) == str

hashString(str) == JoinHex(Digest(Encode(str)))

\* ---- the helper hashString (utils) ----------------------------------------
\* A hex conversion without padStart: a byte below 16 gives one digit.
HexByteShort(b) ==
    IF b < 16 THEN << HexDigits[b + 1] >> ELSE HexByte(b)

RECURSIVE JoinHexShort(_)
JoinHexShort(bytes) ==
    IF bytes = << >> THEN << >>
    ELSE HexByteShort(Head(bytes)) \o JoinHexShort(Tail(bytes))

hashStringHelperShort(str) == JoinHexShort(Digest(Encode(str)))

\* Array.from(new Uint8Array(hashBuffer))
\*     .map(b => b.toString(16).padStart(2, '0')).join('')
hashStringHelper(str) ==
    LET msgBuffer == Encode(str)
        hashBuffer == Digest(msgBuffer)
    IN JoinHex(hashBuffer)

\* ---- the executor (plugin HTTP server on localhost:5474) ------------------
ValidToken == hashString(VaultPassword)

\* HTTP status the executor may answer a request with: the token is checked
\* on every request; an authenticated request may still fail.
ExecutorStatus(body) ==
    IF body.authHash = ValidToken THEN {200, 500} ELSE {401}

ReplyType(cmd) ==
    CASE cmd = "GET_TREE" -> "TREE"
      [] cmd = "LOAD_TAGS" -> "TAGS"
      [] cmd = "LOAD_GRAPH" -> "GRAPH"
      [] cmd = "GET_RENDERED_FILE" -> "RENDERED_FILE"
      [] cmd = "GET_FILE" -> "FILE"
      [] cmd = "SAVE_FILE" -> "SAVED"
      [] cmd = "OPEN_DAILY_NOTE" -> "DAILY_NOTE"
      [] OTHER -> "PONG"

VARIABLES
    authHash,     \* LocalConnection.authHash
    attempts,     \* the conn.connect() calls made by connectToVault
    reqs,         \* the fetches issued, per caller, in issue order
    app,          \* application state of app.js
    btn,          \* #connect-btn
    statusText,   \* #status-text
    ops,          \* invocations from outside so far
    disconnects,  \* conn.disconnect() calls so far
    thrown,       \* error raised by the last conn.disconnect(), "" if none
    call,         \* the function called directly, with its arguments
    remote,       \* the Remote Transport (VaultConnection over WebRTC)
    net,          \* the sends of the file view that await their reply
    procs,        \* the calls of the file view's async functions
    last          \* the step of the file view taken last

vars == << authHash, attempts, reqs, app, btn, statusText, ops, disconnects,
           thrown, call, remote, net, procs, last >>

Attempts == 1..MaxOps

BootstrapCmds == << "GET_TREE", "LOAD_TAGS", "LOAD_GRAPH" >>

\* who awaits a fetch: connect() number i, the timer callback set by
\* handleMessage on CONNECTED, or an application entry point
ConnectOwner(i) == << "connect", i >>
TimerOwner == << "timer", 0 >>
AppOwner == << "app", 0 >>
Owners == { ConnectOwner(i) : i \in Attempts } \cup { TimerOwner, AppOwner }

\* pc: where connect() stands; pw: its password argument; the other fields
\* are history: authed (PING passed), live (PING passed and no disconnect()
\* since), cut (a disconnect() was called while it was pending), connected
\* (CONNECTED messages it delivered), early (a response reached onMessage
\* after it began and before its CONNECTED), err (the error it threw), trace
\* (what it has done so far, in order: status callbacks, fetches, onMessage
\* calls and sends)
IdleAttempt ==
    [pc |-> "idle", pw |-> Null, authed |-> FALSE, live |-> FALSE,
     cut |-> FALSE, connected |-> 0, early |-> FALSE, err |-> "",
     trace |-> << >>]

\* the globals of app.js and the DOM state the handlers touch, as initApp
\* leaves them (null is the empty sequence, {} a tree without files);
\* editor is the text in easyMDE, as a sequence of lines; treeTimers and
\* viewTimers count the timers set by handleMessage that are not yet due,
\* sent lists the commands a handler has passed to conn.send in this call;
\* sidebar is the file list the sidebar and the note list were last rendered
\* from, preview the path of the file whose rendering #custom-preview and the
\* properties panel show, pane which of #custom-preview ("preview"),
\* #preview-loading ("loading") and the editor ("editor") is displayed ("":
\* as the page came), checkTimers counts the timers set by
\* handleCheckboxClick that are not yet due, backBtn whether #filename
\* holds the #back-btn button
InitialApp ==
    [overlay |-> "shown", appActive |-> FALSE,
     masterFileList |-> << >>, folderTree |-> [_files |-> << >>],
     tagTree |-> << >>,
     currentPath |-> "", isReadingMode |-> FALSE,
     currentYamlData |-> Null, navigationHistory |-> << >>,
     editor |-> << >>, yamlSaveInProgress |-> FALSE, isCheckboxSaving |-> FALSE,
     treeTimers |-> 0, viewTimers |-> 0, sent |-> << >>, cutTimers |-> 0,
     sidebar |-> << >>, preview |-> "", pane |-> "", checkTimers |-> 0,
     backBtn |-> FALSE]

\* no function has been called directly
NoCall == [fn |-> ""]

\* the calls of the file view's async functions that can run in one behaviour
Procs == 1..MaxOps

\* an async function call: fn the function, pc the await it stands at,
\* content the text it holds in a local; history: read, the path of its
\* GET_FILE
IdleProc == [fn |-> "", pc |-> "idle", content |-> << >>, read |-> ""]

\* act: "user", "reply" or "timer"; for a reply, cmd, path and owner of the
\* request, ok (send resolved) and changed (handleMessage changed the
\* application state)
NoStep ==
    [act |-> "", cmd |-> "", path |-> "", owner |-> 0, ok |-> FALSE,
     changed |-> FALSE]

\* ---- Remote Transport ---------------------------------------------------------
\* retries allowed in one reconnect (the N of the retry budget)
MaxRetries == 3

\* channel losses in one behaviour
MaxLosses == 2

\* first backoff delay, in ms
BaseDelay == 100

\* state: where the state machine stands; retries: the handshakes tried in
\* the current reconnect; delays: the backoff waited before each of them;
\* losses: the data-channel losses so far; cause: why the transport closed;
\* sent: the commands put on the data channel; refused: the commands that
\* send() failed without putting them on a channel
IdleRemote ==
    [state |-> "Idle", retries |-> 0, delays |-> << >>, losses |-> 0,
     cause |-> "", sent |-> 0, refused |-> 0]

Init ==
    /\ authHash = Null
    /\ attempts = [i \in Attempts |-> IdleAttempt]
    /\ reqs = [o \in Owners |-> << >>]
    /\ app = InitialApp
    /\ btn = [disabled |-> FALSE, text |-> "Connect"]
    /\ statusText = ""
    /\ ops = 0
    /\ disconnects = 0
    /\ thrown = ""
    /\ call = NoCall
    /\ remote = IdleRemote
    /\ net = << >>
    /\ procs = [i \in Procs |-> IdleProc]
    /\ last = NoStep

Pending(a) == a.pc \notin {"idle", "done", "failed"}

\* ---- history read by the properties ---------------------------------------
\* some connect() has passed its PING probe
Authenticated(att) == \E i \in Attempts : att[i].authed

\* a connect() passed its PING probe after the last disconnect() and has not
\* failed since
Live(att) == \E i \in Attempts : att[i].live /\ att[i].pc # "failed"

\* ---- requests ---------------------------------------------------------------
\* JSON body { cmd, authHash: this.authHash, ...extraData }: the spread comes
\* last, so a payload key overrides cmd / authHash.
Body(cmd, hash, extraData) ==
    extraData @@ [cmd |-> cmd, authHash |-> hash]

NoPayload == << >>

\* The record of a fetch in flight.  status is the HTTP status of the reply
\* (0 while in flight), settled how the awaiting call settled, delivered the
\* number of onMessage calls made for the reply; history: cut (in flight when
\* disconnect() was called), ownerCut (issued by a connect() or timer that was
\* pending when disconnect() was called) and, for the sends of the
\* application and of the timer, authedAtIssue and liveAtIssue.  effects is
\* what send() did with the reply, in order; message what it passed to
\* onMessage and returned what it returned.
NoResponse == [type |-> "none", data |-> << >>]

Request(cmd, hash, extraData, via, authed, live, ownerCut) ==
    [cmd |-> cmd, body |-> Body(cmd, hash, extraData), via |-> via,
     status |-> 0, settled |-> "pending", delivered |-> 0,
     effects |-> << >>, message |-> NoResponse, returned |-> NoResponse,
     authedAtIssue |-> authed, liveAtIssue |-> live,
     cut |-> FALSE, ownerCut |-> ownerCut]

\* a fetch made by connect() itself
ConnectRequest(cmd, hash, via, ownerCut) ==
    Request(cmd, hash, NoPayload, via, TRUE, TRUE, ownerCut)

\* a send made outside connect()
OutsideRequest(cmd, hash, extraData, ownerCut) ==
    Request(cmd, hash, extraData, "send", Authenticated(attempts),
            Live(attempts), ownerCut)

InFlight(o, k) == k \in 1..Len(reqs[o]) /\ reqs[o][k].status = 0

\* ---- handleMessage ----------------------------------------------------------
\* The data of a TREE message is an object with a files field,
\* [files |-> ...], or the file array itself, written [array |-> ...].
\* const files = data.files || data
FilesOf(data) == IF "files" \in DOMAIN data THEN data.files ELSE data.array

\* processFileData on the file lists of the model: paths without '/' and
\* without tags, so every file is in the root node and the tag tree is empty
processFileData(data) ==
    [masterFileList |-> FilesOf(data),
     folderTree |-> [_files |-> FilesOf(data)],
     tagTree |-> << >>]

\* A handler that renders the sidebar on every TREE message.
RendersSidebarAlways(a, data) == TRUE

\* wasEmpty || !msg.data.files
RendersSidebar(a, data) ==
    a.masterFileList = << >> \/ "files" \notin DOMAIN data

\* toggleViewMode up to its await
toggleViewMode(a) ==
    [a EXCEPT
        !.isReadingMode = ~a.isReadingMode,
        !.pane = IF a.isReadingMode THEN "editor" ELSE "loading",
        !.sent = Append(@,
            [cmd |-> IF a.isReadingMode THEN "GET_FILE"
                     ELSE "GET_RENDERED_FILE",
             payload |-> [path |-> a.currentPath]])]

\* A handler whose last branch is an else: every message that is not
\* CONNECTED, TREE or FILE is taken for a rendered file.
BranchElse(type) ==
    IF type \in {"CONNECTED", "TREE", "FILE"} THEN type ELSE "RENDERED_FILE"

\* the if (msg.type === ...) chain of handleMessage: the branch a message
\* type runs, "" when it runs none
Branch(type) ==
    IF type \in {"CONNECTED", "TREE", "FILE", "RENDERED_FILE"}
    THEN type ELSE ""

handleMessage(msg, a) ==
    CASE Branch(msg.type) = "CONNECTED" ->
            [a EXCEPT !.overlay = "none", !.appActive = TRUE,
                      !.treeTimers = @ + 1]
      [] Branch(msg.type) = "TREE" ->
            LET result == processFileData(msg.data) IN
            [a EXCEPT
                !.overlay = IF a.masterFileList = << >> THEN "none" ELSE @,
                !.appActive = IF a.masterFileList = << >> THEN TRUE ELSE @,
                !.masterFileList = result.masterFileList,
                !.folderTree = result.folderTree,
                !.tagTree = result.tagTree,
                !.sidebar = IF RendersSidebar(a, msg.data)
                            THEN result.folderTree._files ELSE @]
      [] Branch(msg.type) = "FILE" ->
            LET loaded == [a EXCEPT !.editor = msg.data] IN
            IF a.yamlSaveInProgress THEN loaded
            ELSE IF a.isReadingMode
            THEN [toggleViewMode(loaded) EXCEPT !.viewTimers = @ + 1]
            ELSE loaded
      [] Branch(msg.type) = "RENDERED_FILE" ->
            IF a.isCheckboxSaving THEN a
            ELSE LET result == processFileData([files |-> msg.data.files])
                     listed == IF msg.data.files # << >>
                               THEN [a EXCEPT
                                   !.masterFileList = result.masterFileList,
                                   !.folderTree = result.folderTree,
                                   !.tagTree = result.tagTree]
                               ELSE a
                 IN [listed EXCEPT !.currentYamlData = msg.data.yaml,
                                   !.preview = msg.path,
                                   !.pane = "preview"]
      [] OTHER -> a

\* the front matter the executor reports for a rendered file
FileYaml == << "title", "a" >>

\* the content of the file at a path, as lines: a line that names the file
\* the text comes from, and a task line
FileContent(path) == << path, "- [ ] task" >>

PathOf(body) == IF "path" \in DOMAIN body THEN body.path ELSE ""

Result(r) ==
    [type |-> ReplyType(r.cmd),
     path |-> PathOf(r.body),
     data |-> CASE r.cmd = "GET_TREE" -> [files |-> VaultFiles]
                [] r.cmd = "GET_RENDERED_FILE" ->
                        [yaml |-> FileYaml, files |-> << >>]
                [] r.cmd = "GET_FILE" -> FileContent(PathOf(r.body))
                [] OTHER -> << >>]

\* ---- LocalConnection.send ---------------------------------------------------
\* response.ok
Ok(status) == status \in 200..299

\* A send that swallows a failed request: it resolves and reports the reply.
SendSettleSwallow(status) == "resolved"

\* how the promise returned by send() settles for a reply with this status
SendSettle(status) == IF Ok(status) THEN "resolved" ELSE "rejected"

\* A send that returns the reply without telling the message handler.
SendDeliversNever(status) == 0

\* send(): onMessage(result) is called once, and only when send resolves
SendDelivers(status) == IF SendSettle(status) = "resolved" THEN 1 ELSE 0

\* send() after the reply: throw on a failed request; otherwise parse the
\* body, call onMessage(result), then return result
SendEffects(status) ==
    IF SendSettle(status) = "rejected" THEN << "throw" >>
    ELSE [n \in 1..SendDelivers(status) |-> "onMessage"] \o << "return" >>

\* the reply to request k of owner o has arrived and send() has handled it
Settled(r, status) ==
    [r EXCEPT !.status = status, !.settled = SendSettle(status),
              !.delivered = SendDelivers(status),
              !.effects = SendEffects(status),
              !.message = IF SendDelivers(status) > 0
                          THEN Result(r) ELSE NoResponse,
              !.returned = IF SendSettle(status) = "resolved"
                           THEN Result(r) ELSE NoResponse]

\* the application state after send() has handled the reply.  No action of
\* Spec sends GET_FILE, so no FILE message arrives there and the handler
\* passes no command of its own to conn.send (sent stays empty).
AppAfterSend(r, status) ==
    IF SendDelivers(status) > 0 THEN handleMessage(Result(r), app) ELSE app

\* a response reached onMessage: every connect() that has begun and has not
\* delivered its CONNECTED yet has been overtaken
Overtaken(att, status) ==
    [j \in Attempts |->
        IF SendDelivers(status) > 0 /\ att[j].pc \in {"hashing", "PING"}
        THEN [att[j] EXCEPT !.early = TRUE] ELSE att[j]]

Issue(o, r) == [reqs EXCEPT ![o] = Append(@, r)]

\* an invocation from outside: a user event, a call of a window.* entry point
\* or of conn.disconnect()
Invoke ==
    /\ ops < MaxOps
    /\ ops' = ops + 1

\* ---- connectToVault / LocalConnection.connect -------------------------------
\* the catch block of connectToVault
CatchText(err) ==
    IF err = "Authentication required" THEN "Login Required" ELSE "Retry"

\* A catch block that forgets to re-enable the button.
CatchBtnDisabled(err) == [disabled |-> TRUE, text |-> CatchText(err)]

\* the catch block: btn.innerText = ...; btn.disabled = false
CatchBtn(err) == [disabled |-> FALSE, text |-> CatchText(err)]

\* the catch block: log(...) writes #status-text
CatchLog(err) ==
    CASE err = "Authentication required" ->
            "Session expired. Please log in to the dashboard first."
      [] err = "Authentication Failed" ->
            "Connection Error: Authentication Failed"
      [] err = "HTTP request failed" ->
            "Connection Error: HTTP request failed"
      [] OTHER -> "Connection Error: digest failed"

\* the error of a rejected crypto.subtle.digest (or of a missing
\* crypto.subtle)
DigestError == "digest failed"

\* A connect that reports progress before it hashes the password.
BeforeHashStatus == << << "status", "Connecting to local vault..." >> >>

\* connect() before the digest settles: the callback is stored, nothing is
\* reported or sent
BeforeHash == << >>

\* connect() between the digest and the PING reply
AfterHash ==
    << << "status", "Connecting to local vault..." >>, << "fetch", "PING" >> >>

\* A connect that announces the session before it reports progress.
AfterPingEarlyConnected ==
    << << "onMessage", "CONNECTED" >>,
       << "status", "Authenticated. Loading vault..." >>,
       << "send", BootstrapCmds[1] >> >>

\* connect() after an accepted PING, up to the first awaited send
AfterPing ==
    << << "status", "Authenticated. Loading vault..." >>,
       << "onMessage", "CONNECTED" >>,
       << "send", BootstrapCmds[1] >> >>

\* connectToVault up to the await inside conn.connect(pass, onStatusUpdate)
StartConnect(pass) ==
    /\ \E i \in Attempts :
          /\ attempts[i].pc = "idle"
          /\ \A j \in 1..(i - 1) : attempts[j].pc # "idle"
          /\ attempts' = [attempts EXCEPT
                ![i] = [IdleAttempt EXCEPT !.pc = "hashing", !.pw = pass,
                                           !.trace = BeforeHash]]
    /\ btn' = [disabled |-> TRUE, text |-> "Connecting..."]
    /\ UNCHANGED << authHash, reqs, app, statusText, disconnects, thrown, call,
                    remote, net, procs, last >>

\* click on #connect-btn: a disabled button dispatches no click
ClickConnect ==
    /\ ~btn.disabled
    /\ Invoke
    /\ \E pass \in Passwords : StartConnect(pass)

\* Enter in #password-input
EnterPassword ==
    /\ Invoke
    /\ \E pass \in Passwords : StartConnect(pass)

\* connect(): the digest resolves; authHash is stored, the status callback
\* runs and the PING fetch is issued
HashResolved(i) ==
    /\ attempts[i].pc = "hashing"
    /\ authHash' = hashString(attempts[i].pw)
    /\ statusText' = "Connecting to local vault..."
    /\ reqs' = Issue(ConnectOwner(i),
            ConnectRequest("PING", authHash', "fetch", attempts[i].cut))
    /\ attempts' = [attempts EXCEPT ![i].pc = "PING",
                                     ![i].trace = @ \o AfterHash]
    /\ UNCHANGED << app, btn, ops, disconnects, thrown, call, remote, net,
                    procs, last >>

\* connect(): the digest rejects; hashString throws out of connect() before
\* the assignment to authHash, and connectToVault catches
HashFailed(i) ==
    /\ attempts[i].pc = "hashing"
    /\ attempts' = [attempts EXCEPT ![i].pc = "failed",
                                     ![i].err = DigestError]
    /\ statusText' = CatchLog(DigestError)
    /\ btn' = CatchBtn(DigestError)
    /\ UNCHANGED << authHash, reqs, app, ops, disconnects, thrown, call,
                    remote, net, procs, last >>

\* A connect that never looks at response.ok.
PingAcceptedAlways(status) == TRUE

\* connect(): if (!response.ok) throw new Error('Authentication Failed')
PingAccepted(status) == Ok(status)

\* connect(): the reply to the PING fetch arrives
PingReply(i) ==
    LET o == ConnectOwner(i) IN
    /\ attempts[i].pc = "PING"
    /\ InFlight(o, 1)
    /\ \E status \in ExecutorStatus(reqs[o][1].body) :
        /\ IF PingAccepted(status)
           THEN /\ statusText' = "Authenticated. Loading vault..."
                /\ app' = handleMessage([type |-> "CONNECTED"], app)
                /\ attempts' = [attempts EXCEPT
                        ![i].pc = BootstrapCmds[1],
                        ![i].authed = TRUE,
                        ![i].live = ~attempts[i].cut,
                        ![i].connected = @ + 1,
                        ![i].trace = @ \o AfterPing]
                /\ reqs' = [reqs EXCEPT ![o] =
                        << [@[1] EXCEPT !.status = status,
                                        !.settled = "fetched"],
                           ConnectRequest(BootstrapCmds[1], authHash, "send",
                                          attempts[i].cut) >>]
                /\ UNCHANGED btn
           ELSE /\ attempts' = [attempts EXCEPT
                        ![i].pc = "failed",
                        ![i].err = "Authentication Failed"]
                /\ reqs' = [reqs EXCEPT ![o][1].status = status,
                                        ![o][1].settled = "fetched"]
                /\ statusText' = CatchLog("Authentication Failed")
                /\ btn' = CatchBtn("Authentication Failed")
                /\ UNCHANGED app
    /\ UNCHANGED << authHash, ops, disconnects, thrown, call, remote, net,
                    procs, last >>

\* A connect that loads the graph before the tags.
NextBootstrapSwapped(cmd) ==
    CASE cmd = BootstrapCmds[1] -> BootstrapCmds[3]
      [] cmd = BootstrapCmds[3] -> BootstrapCmds[2]
      [] OTHER -> ""

\* the bootstrap command connect() sends after this one, "" after the last
NextBootstrap(cmd) ==
    CASE cmd = BootstrapCmds[1] -> BootstrapCmds[2]
      [] cmd = BootstrapCmds[2] -> BootstrapCmds[3]
      [] OTHER -> ""

\* connect(): the reply to an awaited bootstrap send arrives
BootstrapReply(i) ==
    LET o == ConnectOwner(i)
        k == Len(reqs[o])
    IN
    /\ attempts[i].pc \in { BootstrapCmds[n] : n \in 1..3 }
    /\ InFlight(o, k)
    /\ reqs[o][k].cmd = attempts[i].pc
    /\ \E status \in ExecutorStatus(reqs[o][k].body) :
        LET r == Settled(reqs[o][k], status)
            att == Overtaken(attempts, status)
            next == NextBootstrap(reqs[o][k].cmd)
        IN
        /\ app' = AppAfterSend(reqs[o][k], status)
        /\ IF r.settled = "rejected"
           THEN /\ attempts' = [att EXCEPT
                        ![i].pc = "failed",
                        ![i].err = "HTTP request failed"]
                /\ reqs' = [reqs EXCEPT ![o][k] = r]
                /\ statusText' = CatchLog("HTTP request failed")
                /\ btn' = CatchBtn("HTTP request failed")
           ELSE IF next = ""
           THEN /\ attempts' = [att EXCEPT ![i].pc = "done"]
                /\ reqs' = [reqs EXCEPT ![o][k] = r]
                /\ UNCHANGED << statusText, btn >>
           ELSE /\ attempts' = [att EXCEPT
                        ![i].pc = next,
                        ![i].trace = Append(@, << "send", next >>)]
                /\ reqs' = [reqs EXCEPT ![o] =
                        Append([@ EXCEPT ![k] = r],
                               ConnectRequest(next, authHash, "send",
                                              attempts[i].cut))]
                /\ UNCHANGED << statusText, btn >>
    /\ UNCHANGED << authHash, ops, disconnects, thrown, call, remote, net,
                    procs, last >>

\* ---- handleMessage: the 200 ms timer set on CONNECTED -----------------------
\* setTimeout(async () => { await conn.send('GET_TREE'); }, 200)
TreeTimerFires ==
    /\ app.treeTimers > 0
    /\ app' = [app EXCEPT !.treeTimers = @ - 1,
                          !.cutTimers = IF @ > 0 THEN @ - 1 ELSE 0]
    /\ reqs' = Issue(TimerOwner,
            OutsideRequest("GET_TREE", authHash, NoPayload,
                           app.cutTimers > 0))
    /\ UNCHANGED << authHash, attempts, btn, statusText, ops, disconnects,
                    thrown, call, remote, net, procs, last >>

\* ---- application entry points (window.*) ------------------------------------
\* an entry point whose first step is await conn.send(cmd, extraData)
AppSend(cmd, extraData) ==
    /\ reqs' = Issue(AppOwner,
            OutsideRequest(cmd, authHash, extraData, FALSE))
    /\ UNCHANGED << authHash, attempts, app, btn, statusText, disconnects,
                    thrown, call, remote, net, procs, last >>

\* refreshTree up to its await (what follows the reply only redraws the list)
refreshTree ==
    /\ Invoke
    /\ AppSend("GET_TREE", NoPayload)

\* openDailyNote up to its await (conn is set by initApp, so the !conn
\* return is never taken)
openDailyNote ==
    /\ Invoke
    /\ AppSend("OPEN_DAILY_NOTE", NoPayload)

\* A loadFile that pushes the current path even when it is the path loaded.
TrackedAlways(path, a) ==
    IF a.currentPath # ""
    THEN IF Len(a.navigationHistory) + 1 > 50
         THEN Tail(Append(a.navigationHistory, a.currentPath))
         ELSE Append(a.navigationHistory, a.currentPath)
    ELSE a.navigationHistory

\* navigationHistory after loadFile(path): push, then shift over the limit
Tracked(path, a) ==
    IF a.currentPath # "" /\ a.currentPath # path
    THEN IF Len(a.navigationHistory) + 1 > 50
         THEN Tail(Append(a.navigationHistory, a.currentPath))
         ELSE Append(a.navigationHistory, a.currentPath)
    ELSE a.navigationHistory

\* loadFile(path) up to its await
LoadFileApp(path, a) ==
    [a EXCEPT
        !.navigationHistory = Tracked(path, a),
        !.backBtn = Len(Tracked(path, a)) > 0,
        !.currentPath = path,
        !.isReadingMode = TRUE,
        !.pane = "loading"]

\* the reply to a send whose caller does nothing more with it: the timer's
\* GET_TREE, refreshTree, the GET_RENDERED_FILE of loadFile
SendReply(o) ==
    \E k \in 1..Len(reqs[o]) : \E status \in ExecutorStatus(reqs[o][k].body) :
        /\ reqs[o][k].status = 0
        /\ reqs[o][k].cmd # "OPEN_DAILY_NOTE"
        /\ reqs' = [reqs EXCEPT ![o][k] = Settled(@, status)]
        /\ app' = AppAfterSend(reqs[o][k], status)
        /\ attempts' = Overtaken(attempts, status)
        /\ UNCHANGED << authHash, btn, statusText, ops, disconnects, thrown,
                        call, remote, net, procs, last >>

\* openDailyNote: the reply arrives; data.success && data.path loads the file
DailyNoteReply ==
    LET o == AppOwner IN
    \E k \in 1..Len(reqs[o]) : \E status \in ExecutorStatus(reqs[o][k].body) :
      \E success \in BOOLEAN :
        LET r == Settled(reqs[o][k], status) IN
        /\ reqs[o][k].status = 0
        /\ reqs[o][k].cmd = "OPEN_DAILY_NOTE"
        /\ attempts' = Overtaken(attempts, status)
        /\ IF r.settled = "resolved" /\ success
           THEN /\ app' = LoadFileApp(DailyNotePath,
                                      AppAfterSend(reqs[o][k], status))
                /\ reqs' = [reqs EXCEPT ![o] =
                        Append([@ EXCEPT ![k] = r],
                               OutsideRequest("GET_RENDERED_FILE", authHash,
                                       [path |-> DailyNotePath], FALSE))]
           ELSE /\ app' = AppAfterSend(reqs[o][k], status)
                /\ reqs' = [reqs EXCEPT ![o][k] = r]
        /\ UNCHANGED << authHash, btn, statusText, ops, disconnects, thrown,
                        call, remote, net, procs, last >>

\* ---- LocalConnection.disconnect ---------------------------------------------
\* A disconnect that discards the token and refuses a second call.
disconnectStrict(c) ==
    IF c.authHash = Null
    THEN [c EXCEPT !.thrown = "Not connected"]
    ELSE [c EXCEPT !.authHash = Null]

\* disconnect() { console.log('Local connection closed'); }
disconnect(c) == c

\* conn.disconnect() is called.  Apart from what disconnect() itself does,
\* the step records what was pending at the call.
Disconnect ==
    /\ Invoke
    /\ disconnects' = disconnects + 1
    /\ LET c == disconnect([authHash |-> authHash, thrown |-> ""]) IN
          /\ authHash' = c.authHash
          /\ thrown' = c.thrown
    /\ attempts' = [i \in Attempts |->
            [attempts[i] EXCEPT !.live = FALSE,
                                !.cut = @ \/ Pending(attempts[i])]]
    /\ reqs' = [o \in Owners |->
            [k \in 1..Len(reqs[o]) |->
                [reqs[o][k] EXCEPT !.cut = @ \/ reqs[o][k].status = 0]]]
    /\ app' = [app EXCEPT !.cutTimers = app.treeTimers]
    /\ UNCHANGED << btn, statusText, call, remote, net, procs, last >>

Next ==
    \/ ClickConnect
    \/ EnterPassword
    \/ \E i \in Attempts : HashResolved(i)
    \/ \E i \in Attempts : HashFailed(i)
    \/ \E i \in Attempts : PingReply(i)
    \/ \E i \in Attempts : BootstrapReply(i)
    \/ TreeTimerFires
    \/ refreshTree
    \/ openDailyNote
    \/ SendReply(TimerOwner)
    \/ SendReply(AppOwner)
    \/ DailyNoteReply
    \/ Disconnect

Spec == Init /\ [][Next]_vars

\* The same behaviours, under the name that the properties of send() are
\* stated for.
SendSpec == Init /\ [][Next]_vars

\* What the event loop guarantees: a settled digest resumes connect() and a
\* due timer runs.  Nothing obliges the executor to answer a request, and
\* neither connect() nor send() arms a timer or an abort signal for its fetch.
LiveSpec ==
    /\ Spec
    /\ \A i \in Attempts : WF_vars(HashResolved(i) \/ HashFailed(i))
    /\ WF_vars(TreeTimerFires)

\* ==== direct calls =============================================================
\* send, handleMessage and the two hashers called once each, on every input
\* of a bounded set and from every application state of a bounded set.

\* all strings over the alphabet of the model, up to n characters
RECURSIVE Strings(_)
Strings(n) ==
    IF n = 0 THEN { << >> }
    ELSE LET shorter == Strings(n - 1) IN
         shorter \cup { Append(str, c) :
                           str \in { t \in shorter : Len(t) = n - 1 },
                           c \in {"a", "b", "p"} }

HashInputs == Strings(MaxStrLen)

\* the values authHash takes: null, or the hash stored by a connect()
Tokens == { Null } \cup { hashString(pw) : pw \in Passwords }

SendCmds == { "GET_TREE", "SAVE_FILE" }

\* extraData arguments; the last two use the keys send() itself writes
Payloads ==
    { NoPayload,
      [path |-> "a.md"],
      [path |-> "a.md", data |-> "text"],
      [cmd |-> "DELETE_FILE"],
      [path |-> "a.md", authHash |-> << "0", "0" >>] }

Vocabulary == { "CONNECTED", "TREE", "FILE", "RENDERED_FILE" }

OtherTypes == { "TAGS", "GRAPH", "DAILY_NOTE", "SAVED", "ERROR", "PONG" }

Messages ==
    { [type |-> "CONNECTED", data |-> << >>],
      [type |-> "TREE", data |-> [files |-> VaultFiles]],
      [type |-> "TREE", data |-> [array |-> VaultFiles]],
      [type |-> "TREE", data |-> [files |-> << >>]],
      [type |-> "FILE", data |-> << "text" >>] }
    \cup { [type |-> "RENDERED_FILE", path |-> "a.md",
            data |-> [yaml |-> y, files |-> f]] :
                y \in { Null, FileYaml }, f \in { << >>, VaultFiles } }
    \cup { [type |-> t, path |-> "a.md",
            data |-> [yaml |-> FileYaml, files |-> VaultFiles]] :
                t \in OtherTypes }

\* application states: before and after the first TREE, with and without a
\* file open, in either view mode, with either flag set
AppStates ==
    { [InitialApp EXCEPT
          !.overlay = IF files = << >> THEN "shown" ELSE "none",
          !.appActive = files # << >>,
          !.masterFileList = files,
          !.folderTree = processFileData([files |-> files]).folderTree,
          !.sidebar = files,
          !.currentPath = path,
          !.isReadingMode = reading,
          !.currentYamlData = yaml,
          !.navigationHistory = history,
          !.yamlSaveInProgress = saving,
          !.isCheckboxSaving = checking] :
        files \in { << >>, << "b.md" >> },
        path \in { "", "b.md" },
        reading \in BOOLEAN,
        yaml \in { Null, << "title", "b" >> },
        history \in { << >>, << "c.md" >> },
        saving \in BOOLEAN,
        checking \in BOOLEAN }

CallInit ==
    /\ authHash \in Tokens
    /\ attempts = [i \in Attempts |-> IdleAttempt]
    /\ reqs = [o \in Owners |-> << >>]
    /\ app \in AppStates
    /\ btn = [disabled |-> FALSE, text |-> "Connect"]
    /\ statusText = ""
    /\ ops = 0
    /\ disconnects = 0
    /\ thrown = ""
    /\ call = NoCall
    /\ remote = IdleRemote
    /\ net = << >>
    /\ procs = [i \in Procs |-> IdleProc]
    /\ last = NoStep

\* the requests of the commands a handler passed to conn.send
RECURSIVE SendAll(_, _, _)
SendAll(rs, sent, hash) ==
    IF sent = << >> THEN rs
    ELSE SendAll(Append(rs, OutsideRequest(Head(sent).cmd, hash,
                                           Head(sent).payload, FALSE)),
                 Tail(sent), hash)

\* conn.hashString(str) and the helper hashString(str)
CallHash(str) ==
    /\ call = NoCall
    /\ call' = [fn |-> "hashString", arg |-> str,
                local |-> hashString(str), helper |-> hashStringHelper(str)]
    /\ UNCHANGED << authHash, attempts, reqs, app, btn, statusText, ops,
                    disconnects, thrown, remote, net, procs, last >>

\* conn.send(cmd, extraData), up to its await
CallSend(cmd, extraData) ==
    /\ call = NoCall
    /\ call' = [fn |-> "send", cmd |-> cmd, payload |-> extraData]
    /\ reqs' = Issue(AppOwner, OutsideRequest(cmd, authHash, extraData, FALSE))
    /\ UNCHANGED << authHash, attempts, app, btn, statusText, ops, disconnects,
                    thrown, remote, net, procs, last >>

\* handleMessage(msg)
CallHandleMessage(msg) ==
    /\ call = NoCall
    /\ call' = [fn |-> "handleMessage", msg |-> msg]
    /\ LET handled == handleMessage(msg, app) IN
          /\ app' = [handled EXCEPT !.sent = << >>]
          /\ reqs' = [reqs EXCEPT ![AppOwner] =
                          SendAll(@, handled.sent, authHash)]
    /\ UNCHANGED << authHash, attempts, btn, statusText, ops, disconnects,
                    thrown, remote, net, procs, last >>

CallNext ==
    \/ \E str \in HashInputs : CallHash(str)
    \/ \E cmd \in SendCmds : \E extraData \in Payloads :
            CallSend(cmd, extraData)
    \/ \E msg \in Messages : CallHandleMessage(msg)

CallSpec == CallInit /\ [][CallNext]_vars

\* ==== Remote Transport ==========================================================
\* State machine Idle -> SignalingInProgress -> ChannelOpen ->
\* (Active | Reconnecting) -> Closed.

\* the backoff waited before retry number n of a reconnect (n from 1)
RECURSIVE Backoff(_)
Backoff(n) == IF n <= 1 THEN BaseDelay ELSE 2 * Backoff(n - 1)

\* A transport that keeps retrying whatever it has already tried.
RetryAllowedAlways(r) == TRUE

\* the retry budget of one reconnect is not used up
RetryAllowed(r) == r.retries < MaxRetries

Close(r, cause) == [r EXCEPT !.state = "Closed", !.cause = cause]

MainUnchanged ==
    UNCHANGED << authHash, attempts, reqs, app, btn, statusText, ops,
                 disconnects, thrown, call, net, procs, last >>

\* connect(): register with the Signaling Client
RemoteConnect ==
    /\ remote.state = "Idle"
    /\ remote' = [remote EXCEPT !.state = "SignalingInProgress"]
    /\ MainUnchanged

\* offer/answer and candidate exchange done, the data channel reports open
ChannelOpens ==
    /\ remote.state = "SignalingInProgress"
    /\ remote' = [remote EXCEPT !.state = "ChannelOpen"]
    /\ MainUnchanged

\* unrecoverable signaling failure
SignalingFails ==
    /\ remote.state = "SignalingInProgress"
    /\ remote' = Close(remote, "signaling")
    /\ MainUnchanged

\* the PING probe over the data channel succeeds
ProbeSucceeds ==
    /\ remote.state = "ChannelOpen"
    /\ remote' = [remote EXCEPT !.state = "Active"]
    /\ MainUnchanged

\* the data channel closes or errors while the session is live
ChannelLost ==
    /\ remote.state = "Active"
    /\ remote.losses < MaxLosses
    /\ remote' = [remote EXCEPT !.state = "Reconnecting", !.retries = 0,
                                !.delays = << >>, !.losses = @ + 1]
    /\ MainUnchanged

\* one retry of the signaling handshake, after its backoff
Retry(ok) ==
    /\ remote.state = "Reconnecting"
    /\ RetryAllowed(remote)
    /\ remote' = [remote EXCEPT
            !.retries = @ + 1,
            !.delays = Append(@, Backoff(remote.retries + 1)),
            !.state = IF ok THEN "Active" ELSE "Reconnecting"]
    /\ MainUnchanged

\* send(): over the data channel when Active; fails fast in every other
\* state (the recommended policy: no queue)
RemoteSend ==
    /\ remote.sent + remote.refused < MaxOps
    /\ remote' = IF remote.state = "Active"
                 THEN [remote EXCEPT !.sent = @ + 1]
                 ELSE [remote EXCEPT !.refused = @ + 1]
    /\ MainUnchanged

\* the retry budget is exhausted
GiveUp ==
    /\ remote.state = "Reconnecting"
    /\ ~RetryAllowed(remote)
    /\ remote' = Close(remote, "budget")
    /\ MainUnchanged

\* disconnect() in any state; Closed has no transition out
RemoteDisconnect ==
    /\ remote.state # "Closed"
    /\ remote' = Close(remote, "disconnect")
    /\ MainUnchanged

RemoteNext ==
    \/ RemoteConnect
    \/ ChannelOpens
    \/ SignalingFails
    \/ ProbeSucceeds
    \/ ChannelLost
    \/ \E ok \in BOOLEAN : Retry(ok)
    \/ RemoteSend
    \/ GiveUp
    \/ RemoteDisconnect

RemoteSpec == Init /\ [][RemoteNext]_vars

\* ==== the file view ==========================================================
\* loadFile, toggleViewMode, saveFile, saveYamlToFile and handleCheckboxClick
\* on a connected application; replies and timers come in any order.

\* sends awaiting their reply, timers and sleeping calls at one time
MaxInFlight == MaxOps + 1

\* the paths a file is opened at: a file of the tree, and one reached by an
\* internal link
Paths == { "a.md", "b.md" }

\* the application after connectToVault and loadFile('a.md') have completed
OpenApp ==
    [InitialApp EXCEPT
        !.overlay = "none", !.appActive = TRUE,
        !.masterFileList = VaultFiles,
        !.folderTree = [_files |-> VaultFiles],
        !.sidebar = VaultFiles,
        !.currentPath = "a.md", !.isReadingMode = TRUE,
        !.currentYamlData = FileYaml, !.preview = "a.md",
        !.pane = "preview"]

\* The connection is established and a.md is open in reading mode; the
\* history of the connect() calls and the counters start empty.
ViewInit ==
    /\ authHash = ValidToken
    /\ attempts = [i \in Attempts |-> IdleAttempt]
    /\ reqs = [o \in Owners |-> << >>]
    /\ app = OpenApp
    /\ btn = [disabled |-> TRUE, text |-> "Connecting..."]
    /\ statusText = "Authenticated. Loading vault..."
    /\ ops = 0
    /\ disconnects = 0
    /\ thrown = ""
    /\ call = NoCall
    /\ remote = IdleRemote
    /\ net = << >>
    /\ procs = [i \in Procs |-> IdleProc]
    /\ last = NoStep

\* some line of the text is the line that names the file at path
LoadedFrom(content, path) ==
    \E n \in 1..Len(content) : content[n] = path

\* conn.send(cmd, payload) called by the async function call owner (0: the
\* caller does nothing that changes state after the await)
Send(a, cmd, payload, owner) ==
    [a EXCEPT !.sent = Append(@,
        [cmd |-> cmd, payload |-> payload, owner |-> owner])]

\* the sends made in a step, as requests in flight
Sends(a) ==
    [k \in 1..Len(a.sent) |->
        [cmd |-> a.sent[k].cmd, payload |-> a.sent[k].payload,
         owner |-> IF "owner" \in DOMAIN a.sent[k] THEN a.sent[k].owner
                   ELSE 0]]

\* calls of saveYamlToFile waiting for one of their timers
Sleeping(p) == Cardinality({ i \in Procs : p[i].pc \in {"sleep200", "sleep100"} })

\* the variables after a step of the file view that leaves the application
\* as a, the requests in flight before its sends as n and the calls as p
ViewStep(a, n, p, l) ==
    /\ Len(n) + Len(a.sent) + a.viewTimers + Sleeping(p) <= MaxInFlight
    /\ app' = [a EXCEPT !.sent = << >>]
    /\ net' = n \o Sends(a)
    /\ procs' = p
    /\ last' = l
    /\ UNCHANGED << authHash, attempts, reqs, btn, disconnects, thrown, call,
                    remote >>

UserStep == [NoStep EXCEPT !.act = "user"]
TimerStep == [NoStep EXCEPT !.act = "timer"]

\* the call of an async function takes the first free slot
Starts(i) ==
    /\ procs[i].pc = "idle"
    /\ \A j \in 1..(i - 1) : procs[j].pc # "idle"

At(i, fn, pc, content, read) ==
    [procs EXCEPT ![i] = [fn |-> fn, pc |-> pc, content |-> content,
                          read |-> read]]

Done(i) == [procs EXCEPT ![i] = IdleProc]

\* loadFile(path) up to its await
loadFile(path, a) ==
    Send(LoadFileApp(path, a), "GET_RENDERED_FILE", [path |-> path], 0)

\* window.loadFile(path), or a click on an internal link
UserLoadFile(path) ==
    /\ Invoke
    /\ ViewStep(loadFile(path, app), net, procs, UserStep)
    /\ UNCHANGED statusText

\* A navigateBack that leaves the history as its loadFile made it.
navigateBackKeeps(a) ==
    IF Len(a.navigationHistory) = 0 THEN a
    ELSE loadFile(a.navigationHistory[Len(a.navigationHistory)],
                  [a EXCEPT !.navigationHistory = << >>])

\* window.navigateBack() up to the await of its loadFile: loadFile runs on
\* an emptied history, and the copy made before it is put back afterwards
navigateBack(a) ==
    IF Len(a.navigationHistory) = 0 THEN a
    ELSE LET previousPath == a.navigationHistory[Len(a.navigationHistory)]
             tempHistory == SubSeq(a.navigationHistory, 1,
                                   Len(a.navigationHistory) - 1)
             loaded == loadFile(previousPath,
                                [a EXCEPT !.navigationHistory = << >>])
         IN [loaded EXCEPT !.navigationHistory = tempHistory]

\* click on #view-btn
UserToggle ==
    /\ Invoke
    /\ ViewStep(toggleViewMode(app), net, procs, UserStep)
    /\ UNCHANGED statusText

\* getEditorContent()
getEditorContent(a) == a.editor

\* Ctrl/Cmd+S or the save button: saveFile() up to its await
UserSave ==
    /\ Invoke
    /\ app.currentPath # ""
    /\ \E i \in Procs :
        /\ Starts(i)
        /\ ViewStep(Send(app, "SAVE_FILE",
                         [path |-> app.currentPath,
                          data |-> getEditorContent(app)], i),
                    net, At(i, "saveFile", "SAVE_FILE", << >>, ""), UserStep)
    /\ UNCHANGED statusText

\* an edit in the properties panel: saveYamlToFile() up to its first await
UserSaveYaml ==
    /\ Invoke
    /\ app.currentPath # ""
    /\ \E i \in Procs :
        /\ Starts(i)
        /\ ViewStep(Send([app EXCEPT !.yamlSaveInProgress = TRUE],
                         "GET_FILE", [path |-> app.currentPath], i),
                    net,
                    At(i, "saveYamlToFile", "GET_FILE", << >>,
                       app.currentPath),
                    UserStep)
    /\ UNCHANGED statusText

\* click on a checkbox of the preview: handleCheckboxClick up to its first
\* await (the preview is on screen in reading mode only)
UserCheckbox ==
    /\ Invoke
    /\ app.isReadingMode
    /\ app.currentPath # ""
    /\ \E n \in 1..Len(app.masterFileList) :
            app.masterFileList[n] = app.currentPath
    /\ \E i \in Procs :
        /\ Starts(i)
        /\ ViewStep(Send(app, "GET_FILE", [path |-> app.currentPath], i),
                    net,
                    At(i, "handleCheckboxClick", "GET_FILE", << >>,
                       app.currentPath),
                    UserStep)
    /\ UNCHANGED statusText

\* saveYamlToFile: the text without its old front matter, under the front
\* matter built from currentYamlData
WithYaml(rawContent, yaml) ==
    LET bodyContent == IF rawContent # << >> /\ Head(rawContent) = "---"
                       THEN Tail(rawContent) ELSE rawContent
    IN IF yaml # Null THEN << "---" >> \o bodyContent ELSE bodyContent

\* handleCheckboxClick: the text with the status of the target task line
\* replaced
CheckTask(content) ==
    [n \in 1..Len(content) |->
        IF content[n] = "- [ ] task" THEN "- [x] task" ELSE content[n]]

\* A catch block that leaves the flag as it is.
CheckboxCatchKeeps(a) == a

\* the catch block of handleCheckboxClick
CheckboxCatch(a) == [a EXCEPT !.isCheckboxSaving = FALSE]

\* ---- vault-mutating operations ------------------------------------------------
MutatingFns ==
    { "createNote", "createFolder", "ctxNewNote", "ctxNewFolder", "ctxRename",
      "ctxDelete" }

\* the path typed at the prompt of a new note or of a rename
NewPath == "b.md"

\* the command an operation sends first
MutatingCmd(fn) ==
    CASE fn \in {"createNote", "ctxNewNote"} -> "CREATE_FILE"
      [] fn \in {"createFolder", "ctxNewFolder"} -> "CREATE_FOLDER"
      [] fn = "ctxRename" -> "RENAME_FILE"
      [] OTHER -> "DELETE_FILE"

\* its payload: the context menu was opened on the file a.md
MutatingPayload(fn) ==
    CASE fn \in {"createNote", "ctxNewNote"} -> [path |-> NewPath]
      [] fn \in {"createFolder", "ctxNewFolder"} -> [path |-> "dir"]
      [] fn = "ctxRename" ->
            [path |-> "a.md", data |-> [newPath |-> NewPath]]
      [] OTHER -> [path |-> "a.md"]

\* Operations that refresh the tree before they send their command.
AwaitsTreeFirst(fn) ==
    << "GET_TREE", MutatingCmd(fn) >>
    \o (IF fn \in {"createNote", "ctxNewNote", "ctxRename"}
        THEN << "loadFile" >> ELSE << >>)

\* the awaits of an operation, in program order
Awaits(fn) ==
    << MutatingCmd(fn), "GET_TREE" >>
    \o (IF fn \in {"createNote", "ctxNewNote", "ctxRename"}
        THEN << "loadFile" >> ELSE << >>)

\* the application after call i of fn has run up to the await named step
RunTo(i, fn, step, a) ==
    CASE step = "loadFile" ->
            Send(LoadFileApp(NewPath, a), "GET_RENDERED_FILE",
                 [path |-> NewPath], i)
      [] step = "GET_TREE" -> Send(a, "GET_TREE", NoPayload, i)
      [] OTHER -> Send(a, step, MutatingPayload(fn), i)

\* the await that follows the await named step in fn, "" after the last
Following(fn, step) ==
    LET n == CHOOSE m \in 1..Len(Awaits(fn)) : Awaits(fn)[m] = step IN
    IF n < Len(Awaits(fn)) THEN Awaits(fn)[n + 1] ELSE ""

\* the finally block of saveYamlToFile
Finally(a) == [a EXCEPT !.yamlSaveInProgress = FALSE]

\* What the async function call i does when the send it awaits has settled
\* (ok: resolved), after handleMessage has left the application as a; found
\* tells whether handleCheckboxClick finds its task line in the text.
AfterSend(i, ok, found, msg, a) ==
    LET p == IF i = 0 THEN IdleProc ELSE procs[i] IN
    CASE p.fn = "saveFile" ->
            [a |-> a, p |-> Done(i),
             text |-> IF ok THEN "File saved!" ELSE statusText]
      [] p.fn = "saveYamlToFile" ->
            IF ~ok \/ p.pc = "GET_RENDERED_FILE"
            THEN [a |-> Finally(a), p |-> Done(i), text |-> statusText]
            ELSE IF p.pc = "GET_FILE"
            THEN [a |-> a,
                  p |-> At(i, p.fn, "sleep200", << >>, p.read),
                  text |-> statusText]
            ELSE IF a.isReadingMode
            THEN [a |-> a,
                  p |-> At(i, p.fn, "sleep100", p.content, p.read),
                  text |-> statusText]
            ELSE [a |-> Finally([a EXCEPT !.editor = p.content]),
                  p |-> Done(i), text |-> statusText]
      [] p.fn = "handleCheckboxClick" ->
            IF ~ok
            THEN [a |-> CheckboxCatch(a), p |-> Done(i), text |-> statusText]
            ELSE IF p.pc = "GET_FILE"
            THEN IF ~found
                 THEN [a |-> a, p |-> Done(i), text |-> statusText]
                 ELSE [a |-> Send([a EXCEPT !.isCheckboxSaving = TRUE],
                                  "WRITE",
                                  [path |-> a.currentPath,
                                   data |-> CheckTask(msg.data)], i),
                       p |-> At(i, p.fn, "WRITE", CheckTask(msg.data),
                                p.read),
                       text |-> statusText]
            ELSE [a |-> [a EXCEPT !.checkTimers = @ + 1],
                  p |-> Done(i), text |-> statusText]
      [] p.fn \in MutatingFns ->
            IF ~ok
            THEN [a |-> a, p |-> Done(i), text |-> statusText]
            ELSE IF Following(p.fn, p.pc) # ""
            THEN [a |-> RunTo(i, p.fn, Following(p.fn, p.pc), a),
                  p |-> At(i, p.fn, Following(p.fn, p.pc), << >>, ""),
                  text |-> statusText]
            ELSE [a |-> IF p.fn = "createNote" /\ a.isReadingMode
                        THEN toggleViewMode(a) ELSE a,
                  p |-> Done(i), text |-> statusText]
      [] OTHER -> [a |-> a, p |-> procs, text |-> statusText]

\* handleCheckboxClick looks for the task line of the clicked checkbox in the
\* text of a GET_FILE reply; the line is there or not (the preview may be
\* older than the file).  No other caller looks.
Found(r, status) ==
    IF /\ r.owner # 0
       /\ procs[r.owner].fn = "handleCheckboxClick"
       /\ r.cmd = "GET_FILE"
       /\ Ok(status)
    THEN BOOLEAN ELSE {FALSE}

\* the reply to the request at position k of net arrives: send() throws or
\* calls onMessage and returns, and the caller resumes
Reply(k) ==
    /\ k \in 1..Len(net)
    /\ LET r == net[k]
           rest == SubSeq(net, 1, k - 1) \o SubSeq(net, k + 1, Len(net))
           body == Body(r.cmd, authHash, r.payload)
       IN
       \E status \in ExecutorStatus(body) : \E found \in Found(r, status) :
          LET ok == SendSettle(status) = "resolved"
              msg == Result([cmd |-> r.cmd, body |-> body])
              handled == IF SendDelivers(status) > 0
                         THEN handleMessage(msg, app) ELSE app
              after == AfterSend(r.owner, ok, found, msg, handled)
          IN
          /\ ViewStep(after.a, rest, after.p,
                      [act |-> "reply", cmd |-> r.cmd, path |-> PathOf(body),
                       owner |-> r.owner, ok |-> ok,
                       changed |-> handled # app])
          /\ statusText' = after.text
          /\ UNCHANGED ops

\* the replies to the requests of one caller and command
ReplyTo(cmd, owner) ==
    \E k \in 1..Len(net) :
        /\ net[k].cmd = cmd
        /\ net[k].owner = owner
        /\ Reply(k)

\* saveYamlToFile: the 200 ms timer (read the editor, build the text, send
\* SAVE_FILE) or the 100 ms timer (send GET_RENDERED_FILE) is due
SleepDone(i) ==
    LET p == procs[i] IN
    /\ p.pc \in {"sleep200", "sleep100"}
    /\ IF p.pc = "sleep100"
       THEN ViewStep(Send(app, "GET_RENDERED_FILE",
                          [path |-> app.currentPath], i),
                     net, At(i, p.fn, "GET_RENDERED_FILE", p.content, p.read),
                     TimerStep)
       ELSE IF getEditorContent(app) = << >>
       THEN ViewStep(Finally(app), net, Done(i), TimerStep)
       ELSE LET newContent == WithYaml(getEditorContent(app),
                                       app.currentYamlData)
            IN ViewStep(Send(app, "SAVE_FILE",
                             [path |-> app.currentPath, data |-> newContent],
                             i),
                        net, At(i, p.fn, "SAVE_FILE", newContent, p.read),
                        TimerStep)
    /\ UNCHANGED << statusText, ops >>

\* handleMessage on FILE: setTimeout(() => toggleViewMode(), 50) is due
ViewTimerFires ==
    /\ app.viewTimers > 0
    /\ ViewStep(toggleViewMode([app EXCEPT !.viewTimers = @ - 1]), net, procs,
                TimerStep)
    /\ UNCHANGED << statusText, ops >>

\* handleCheckboxClick: setTimeout(() => { isCheckboxSaving = false }, 100)
\* is due
CheckTimerFires ==
    /\ app.checkTimers > 0
    /\ ViewStep([app EXCEPT !.checkTimers = @ - 1,
                            !.isCheckboxSaving = FALSE],
                net, procs, TimerStep)
    /\ UNCHANGED << statusText, ops >>

ViewNext ==
    \/ \E path \in Paths : UserLoadFile(path)
    \/ UserToggle
    \/ UserSave
    \/ UserSaveYaml
    \/ UserCheckbox
    \/ \E k \in 1..Len(net) : Reply(k)
    \/ \E i \in Procs : SleepDone(i)
    \/ ViewTimerFires
    \/ CheckTimerFires

ViewSpec == ViewInit /\ [][ViewNext]_vars

\* ---- navigation ----------------------------------------------------------
\* loadFile and navigateBack, any number of times, on a connected
\* application with a file open or with none opened yet.

\* the application after connectToVault, before any loadFile
ListedApp ==
    [OpenApp EXCEPT
        !.currentPath = "", !.isReadingMode = FALSE,
        !.currentYamlData = Null, !.preview = "", !.pane = ""]

NavInit ==
    /\ authHash = ValidToken
    /\ attempts = [i \in Attempts |-> IdleAttempt]
    /\ reqs = [o \in Owners |-> << >>]
    /\ app \in { OpenApp, ListedApp }
    /\ btn = [disabled |-> TRUE, text |-> "Connecting..."]
    /\ statusText = "Authenticated. Loading vault..."
    /\ ops = 0
    /\ disconnects = 0
    /\ thrown = ""
    /\ call = NoCall
    /\ remote = IdleRemote
    /\ net = << >>
    /\ procs = [i \in Procs |-> IdleProc]
    /\ last = NoStep

\* the call fn(path) was made; history: before and was, navigationHistory
\* and currentPath when it was made, and sent, the number of commands it
\* passed to conn.send
NavStep(fn, path, a, after) ==
    [act |-> fn, cmd |-> "", path |-> path, owner |-> 0, ok |-> FALSE,
     changed |-> after # a,
     before |-> a.navigationHistory, was |-> a.currentPath,
     sent |-> Len(after.sent) - Len(a.sent)]

NavLoadFile(path) ==
    /\ ViewStep(loadFile(path, app), net, procs,
                NavStep("loadFile", path, app, loadFile(path, app)))
    /\ UNCHANGED << statusText, ops >>

\* click on #back-btn, or window.navigateBack() from the console
NavBack ==
    /\ ViewStep(navigateBack(app), net, procs,
                NavStep("navigateBack", "", app, navigateBack(app)))
    /\ UNCHANGED << statusText, ops >>

NavNext ==
    \/ \E path \in Paths : NavLoadFile(path)
    \/ NavBack
    \/ \E k \in 1..Len(net) : Reply(k)

NavSpec == NavInit /\ [][NavNext]_vars

\* createNote, createFolder and the ctx* operations, after the prompt was
\* answered, up to their first await
UserMutate(fn) ==
    /\ Invoke
    /\ \E i \in Procs :
        /\ Starts(i)
        /\ ViewStep(RunTo(i, fn, Awaits(fn)[1], app), net,
                    At(i, fn, Awaits(fn)[1], << >>, ""), UserStep)
    /\ UNCHANGED statusText

MutateNext ==
    \/ \E fn \in MutatingFns : UserMutate(fn)
    \/ \E k \in 1..Len(net) : Reply(k)
    \/ ViewTimerFires

MutateSpec == ViewInit /\ [][MutateNext]_vars

\* the replies to the request that the async function call i awaits
ReplyToCall(i) ==
    \E k \in 1..Len(net) : net[k].owner = i /\ Reply(k)

\* checkbox clicks only
CheckboxNext ==
    \/ UserCheckbox
    \/ \E k \in 1..Len(net) : Reply(k)
    \/ ViewTimerFires
    \/ CheckTimerFires

\* Every request is answered and every timer that is due fires.
CheckboxSpec ==
    /\ ViewInit
    /\ [][CheckboxNext]_vars
    /\ \A cmd \in {"GET_FILE", "GET_RENDERED_FILE"} : SF_vars(ReplyTo(cmd, 0))
    /\ SF_vars(\E i \in Procs : ReplyToCall(i))
    /\ WF_vars(ViewTimerFires)
    /\ WF_vars(CheckTimerFires)

\* ==== properties =============================================================
\* the requests of one caller, as (owner, index) pairs
ReqIds == UNION { { << o, k >> : k \in 1..Len(reqs[o]) } : o \in Owners }

Req(id) == reqs[id[1]][id[2]]

OutsideOwners == { TimerOwner, AppOwner }

\* application entry points invoked so far
AppCalls ==
    ops - disconnects - Cardinality({ i \in Attempts : attempts[i].pc # "idle" })

\* the commands of a successful connect(), in order
ConnectCmds == << "PING" >> \o BootstrapCmds

\* ---- C1 ---------------------------------------------------------------------
\* C1: no command other than the PING probe of connect() is issued unless some
\* connect() has already passed its PING probe.
C1_NoCommandBeforeAuth ==
    \A id \in ReqIds : Req(id).cmd # "PING" => Req(id).authedAtIssue

\* ---- C2 ---------------------------------------------------------------------
\* C2: when the executor rejects the PING probe, connect() fails with the
\* authentication error, has issued no bootstrap command, has delivered no
\* CONNECTED message, and the session it leaves is Disconnected: the connect
\* overlay is shown and the application container is not active.
C2_RejectedPingLeavesDisconnected ==
    [][\A i \in Attempts :
          (attempts[i].pc = "PING" /\ attempts'[i].pc = "failed") =>
              /\ attempts'[i].err = "Authentication Failed"
              /\ Len(reqs'[ConnectOwner(i)]) = 1
              /\ attempts'[i].connected = 0
              /\ app'.overlay = "shown"
              /\ ~app'.appActive]_vars

\* Whatever else runs, the connect() whose PING probe is rejected throws the
\* authentication error, sends nothing after the probe and delivers no
\* CONNECTED message.
RejectedPingStops ==
    \A i \in Attempts :
        attempts[i].err = "Authentication Failed" =>
            /\ attempts[i].pc = "failed"
            /\ Len(reqs[ConnectOwner(i)]) = 1
            /\ ~Ok(reqs[ConnectOwner(i)][1].status)
            /\ attempts[i].connected = 0

\* ---- C3 ---------------------------------------------------------------------
\* C3: a connect() that succeeded delivered exactly one CONNECTED message, and
\* no response reached onMessage between its start and that message.
C3_ConnectedFirst ==
    \A i \in Attempts :
        attempts[i].pc = "done" =>
            attempts[i].connected = 1 /\ ~attempts[i].early

\* ---- C4 ---------------------------------------------------------------------
\* C4: the requests of a connect() are, in order, PING, GET_TREE, LOAD_TAGS,
\* LOAD_GRAPH; each is issued only when the one before it has been answered
\* with success; a connect() that succeeded issued all four, and each of its
\* three bootstrap commands produced exactly one onMessage call.
C4_BootstrapOrder ==
    \A i \in Attempts :
        LET rs == reqs[ConnectOwner(i)] IN
        /\ Len(rs) <= Len(ConnectCmds)
        /\ \A k \in 1..Len(rs) : rs[k].cmd = ConnectCmds[k]
        /\ \A k \in 1..(Len(rs) - 1) : Ok(rs[k].status)
        /\ attempts[i].pc = "done" =>
              /\ Len(rs) = Len(ConnectCmds)
              /\ \A k \in 2..Len(rs) : rs[k].delivered = 1
              /\ rs[1].delivered = 0

C4_Witness ==
    \E i \in Attempts : attempts[i].pc = "done"

\* ---- C5 ---------------------------------------------------------------------
\* C5: send() outside connect() issues a request only on a connected session:
\* one whose connect() passed its PING probe, has not failed and has not
\* been disconnected since.
C5_NoRequestWhenNotConnected ==
    \A id \in ReqIds : id[1] \in OutsideOwners => Req(id).liveAtIssue

\* ---- C6 ---------------------------------------------------------------------
\* C6: a send whose request was answered with a non-success status is
\* rejected, makes no onMessage call, and is not issued again: a connect()
\* whose bootstrap send was rejected has thrown that error and sent nothing
\* after it, and the application and the timer issue no more requests than
\* they made send calls.
C6_FailedSendRejects ==
    /\ \A id \in ReqIds :
          LET r == Req(id) IN
          (r.via = "send" /\ r.status # 0 /\ ~Ok(r.status)) =>
              /\ r.settled = "rejected"
              /\ r.delivered = 0
              /\ id[1] \notin OutsideOwners =>
                    /\ id[2] = Len(reqs[id[1]])
                    /\ attempts[id[1][2]].pc = "failed"
                    /\ attempts[id[1][2]].err = "HTTP request failed"
    /\ Len(reqs[AppOwner]) <=
          AppCalls + Cardinality({ k \in 1..Len(reqs[AppOwner]) :
                        /\ reqs[AppOwner][k].cmd = "OPEN_DAILY_NOTE"
                        /\ reqs[AppOwner][k].settled = "resolved" })
    /\ Len(reqs[TimerOwner]) + app.treeTimers =
          Cardinality({ i \in Attempts : attempts[i].connected = 1 })

C6_Witness ==
    \E id \in ReqIds :
        /\ Req(id).via = "send"
        /\ Req(id).status # 0
        /\ ~Ok(Req(id).status)

\* ---- C7 ---------------------------------------------------------------------
\* C7: after disconnect() no onMessage call is made for a request that was in
\* flight at the call, and no connect() or timer that was pending at the
\* call issues a further request.
C7_DisconnectCancels ==
    \A id \in ReqIds :
        /\ Req(id).cut => Req(id).delivered = 0
        /\ ~Req(id).ownerCut

\* ---- C8 ---------------------------------------------------------------------
\* what the program holds, without the history kept for the properties
ProgramState ==
    << authHash,
       [i \in Attempts |-> << attempts[i].pc, attempts[i].pw,
                               attempts[i].trace >>],
       [o \in Owners |-> [k \in 1..Len(reqs[o]) |->
            << reqs[o][k].body, reqs[o][k].status, reqs[o][k].settled,
               reqs[o][k].delivered >>]],
       [app EXCEPT !.cutTimers = 0], btn, statusText >>

\* C8: a disconnect() call, from any state, raises no error and leaves the
\* program state as it was; so a second call in a row leaves the state as
\* the first one left it.
C8_DisconnectIdempotent ==
    [][disconnects' # disconnects =>
          thrown' = "" /\ ProgramState' = ProgramState]_vars

C8_Witness == disconnects = 2

\* ---- C9 ---------------------------------------------------------------------
\* C9: all requests of one connect() (its PING probe and its bootstrap
\* commands) carry the same authHash.
C9_TokenStable ==
    \A i \in Attempts :
        \A k \in 1..Len(reqs[ConnectOwner(i)]) :
            reqs[ConnectOwner(i)][k].body.authHash =
                reqs[ConnectOwner(i)][1].body.authHash

\* ---- C10 --------------------------------------------------------------------
\* the secrets passed to connect() so far
Entered == { attempts[i].pw : i \in { j \in Attempts : attempts[j].pc # "idle" } }

\* C10: every request body holds cmd, authHash and the payload of the command;
\* its authHash is null or the hash of a secret passed to connect(), the PING
\* of a connect() carries the hash of that connect's secret, and no authHash
\* (stored or sent) is a secret in clear.
C10_PlaintextNeverSent ==
    LET entered == Entered
        tokens == {Null} \cup { hashString(pw) : pw \in entered }
    IN
    /\ authHash \notin entered
    /\ \A id \in ReqIds :
          LET b == Req(id).body IN
          /\ DOMAIN b \subseteq {"cmd", "authHash", "path"}
          /\ b.authHash \in tokens
          /\ b.authHash \notin entered
    /\ \A i \in Attempts :
          Len(reqs[ConnectOwner(i)]) > 0 =>
              reqs[ConnectOwner(i)][1].body.authHash =
                  hashString(attempts[i].pw)

C10_Witness ==
    \E id \in ReqIds :
        /\ id[1] = AppOwner
        /\ Req(id).body.authHash # Null

\* ---- C11 --------------------------------------------------------------------
\* C11: the stored authHash lasts no longer than the session: a disconnect()
\* call leaves authHash null, and when connect() fails authentication the
\* token of that attempt is no longer stored.
C11_TokenDiscarded ==
    [][/\ disconnects' # disconnects => authHash' = Null
       /\ \A i \in Attempts :
             (attempts[i].pc = "PING" /\ attempts'[i].pc = "failed") =>
                 authHash' # hashString(attempts[i].pw)]_vars

\* ---- C13 --------------------------------------------------------------------
\* C13: a send() whose request was answered with success called onMessage
\* exactly once with the response, did so before it returned, and returned
\* that same response.
C13_ReplyReachesOnMessage ==
    \A id \in ReqIds :
        LET r == Req(id) IN
        (r.via = "send" /\ Ok(r.status)) =>
            /\ r.delivered = 1
            /\ r.effects = << "onMessage", "return" >>
            /\ r.message = Result(r)
            /\ r.returned = r.message
            /\ r.settled = "resolved"

C13_Witness ==
    \E id \in ReqIds :
        /\ id[1] = AppOwner
        /\ Req(id).via = "send"
        /\ Ok(Req(id).status)
        /\ Req(id).message.type = "TREE"

\* ---- C15 --------------------------------------------------------------------
\* C15: when the digest fails inside connect(), connect() rejects having
\* issued no request, called neither the status callback nor onMessage, and
\* left the stored authHash and the application state as they were.
C15_DigestFailureAborts ==
    [][\A i \in Attempts :
          (attempts[i].pc = "hashing" /\ attempts'[i].pc = "failed") =>
              /\ attempts'[i].err = DigestError
              /\ attempts'[i].trace = << >>
              /\ attempts'[i].connected = 0
              /\ reqs'[ConnectOwner(i)] = << >>
              /\ reqs' = reqs
              /\ authHash' = authHash
              /\ app' = app]_vars

C15_Witness ==
    /\ authHash # Null
    /\ \E i \in Attempts :
          /\ attempts[i].err = DigestError
          /\ authHash # hashString(attempts[i].pw)

\* ---- C17 --------------------------------------------------------------------
AuthenticatedStatus == << "status", "Authenticated. Loading vault..." >>

\* C17: the status callback gets 'Connecting to local vault...' before the
\* PING is issued and 'Authenticated. Loading vault...' after the PING was
\* answered with success and before the CONNECTED message and every
\* bootstrap command; a connect() whose PING was rejected never reports the
\* second string.
C17_StatusOrder ==
    \A i \in Attempts :
        LET t == attempts[i].trace
            rs == reqs[ConnectOwner(i)]
        IN
        /\ t = SubSeq(<< << "status", "Connecting to local vault..." >>,
                         << "fetch", "PING" >>,
                         AuthenticatedStatus,
                         << "onMessage", "CONNECTED" >>,
                         << "send", "GET_TREE" >>,
                         << "send", "LOAD_TAGS" >>,
                         << "send", "LOAD_GRAPH" >> >>, 1, Len(t))
        /\ Len(rs) = Cardinality({ n \in 1..Len(t) :
                                     t[n][1] \in {"fetch", "send"} })
        /\ (\E n \in 1..Len(t) : t[n] = AuthenticatedStatus) =>
              Len(rs) > 0 /\ Ok(rs[1].status)
        /\ attempts[i].err = "Authentication Failed" => Len(t) = 2

C17_Witness ==
    /\ \E i \in Attempts : attempts[i].pc = "done"
    /\ \E i \in Attempts : attempts[i].err = "Authentication Failed"

\* ---- C14 --------------------------------------------------------------------
\* C14: every connect() that was called eventually settles, and every request
\* issued by send() is eventually settled, whether or not the executor
\* answers.
C14_BoundedWait ==
    /\ \A i \in Attempts :
          (attempts[i].pc # "idle") ~> (attempts[i].pc \in {"done", "failed"})
    /\ \A o \in OutsideOwners :
          (Len(reqs[o]) > 0) ~>
              (Len(reqs[o]) > 0 /\ reqs[o][1].settled # "pending")

\* ---- C16 --------------------------------------------------------------------
\* the step in which connect() number i rejects and connectToVault catches
Fails(i) == attempts[i].pc # "failed" /\ attempts'[i].pc = "failed"

\* on failure the error is written to the status text and the button is
\* re-enabled with the label of the catch block; the step issues no request
C16_FailureSurfaced ==
    \A i \in Attempts :
        Fails(i) =>
            /\ statusText' = CatchLog(attempts'[i].err)
            /\ ~btn'.disabled
            /\ btn'.text = IF attempts'[i].err = "Authentication required"
                           THEN "Login Required" ELSE "Retry"
            /\ \A o \in Owners : Len(reqs'[o]) = Len(reqs[o])

\* a connect() that failed sends nothing more, and a connect() starts only
\* in a step that is a user event
C16_NoRetry ==
    \A i \in Attempts :
        /\ attempts[i].pc = "failed" =>
              /\ attempts'[i].pc = "failed"
              /\ Len(reqs'[ConnectOwner(i)]) = Len(reqs[ConnectOwner(i)])
        /\ (attempts[i].pc = "idle" /\ attempts'[i].pc # "idle") =>
              ops' = ops + 1

\* on success the button is left disabled
C16_SuccessLeavesDisabled ==
    \A i \in Attempts :
        (attempts[i].pc # "done" /\ attempts'[i].pc = "done") => btn'.disabled

\* C16: when connect() fails, connectToVault writes the error into the status
\* text and re-enables the connect button ('Retry', or 'Login Required' for
\* 'Authentication required'), and neither it nor the failed connect() starts
\* another attempt or issues another request; when connect() succeeds the
\* button is left disabled.
C16_FailureLeftToCaller ==
    [][C16_FailureSurfaced /\ C16_NoRetry /\ C16_SuccessLeavesDisabled]_vars

\* ---- C12 --------------------------------------------------------------------
\* C12: send(cmd, payload) issues exactly one request; whatever the keys of
\* the payload, the request's cmd is the cmd argument, its authHash is the
\* stored token, and every entry of the payload is in the request.
C12_SendEmbeds ==
    [][call'.fn = "send" =>
          LET rs == reqs'[AppOwner]
              body == rs[Len(rs)].body
          IN
          /\ Len(rs) = Len(reqs[AppOwner]) + 1
          /\ \A o \in Owners \ {AppOwner} : reqs'[o] = reqs[o]
          /\ body.cmd = call'.cmd
          /\ body.authHash = authHash
          /\ \A key \in DOMAIN call'.payload :
                key \in DOMAIN body /\ body[key] = call'.payload[key]]_vars

\* ---- C18 --------------------------------------------------------------------
\* C18: handleMessage called with a message whose type is none of CONNECTED,
\* TREE, FILE, RENDERED_FILE leaves the application state as it was and
\* issues no command.
C18_OtherTypesPassThrough ==
    [][(call'.fn = "handleMessage" /\ call'.msg.type \notin Vocabulary) =>
          /\ app' = app
          /\ reqs' = reqs]_vars

C18_Witness ==
    /\ call.fn = "handleMessage"
    /\ call.msg.type = "TAGS"
    /\ app.isReadingMode
    /\ app.masterFileList = << "b.md" >>
    /\ app.currentYamlData = << "title", "b" >>
    /\ ~app.isCheckboxSaving

C20_ReconnectBudget ==
    /\ [](/\ remote.retries <= MaxRetries
          /\ Len(remote.delays) = remote.retries
          /\ \A n \in 1..(Len(remote.delays) - 1) :
                remote.delays[n] < remote.delays[n + 1]
          /\ remote.cause = "budget" =>
                remote.state = "Closed" /\ remote.retries = MaxRetries)
    /\ [][/\ (remote.state = "Active" /\ remote'.losses # remote.losses) =>
                remote'.state = "Reconnecting"
          /\ (remote.state = "Reconnecting" /\ remote'.state = "Closed") =>
                \/ remote'.cause = "disconnect"
                \/ remote.retries = MaxRetries
          /\ remote.state = "Closed" =>
                /\ remote'.state = "Closed"
                /\ remote'.sent = remote.sent]_vars

C20_Witness ==
    /\ remote.state = "Closed"
    /\ remote.cause = "budget"
    /\ remote.losses = 2

\* ---- C25 --------------------------------------------------------------------
\* C25: at most one connect() is in flight at any time: while an attempt
\* started by connectToVault is pending, a click on the connect button or
\* Enter in the password field starts no second attempt.
C25_OneConnectInFlight ==
    Cardinality({ i \in Attempts : Pending(attempts[i]) }) <= 1

\* ---- C26 --------------------------------------------------------------------
\* C26: a CONNECTED message is delivered only for connect attempts that
\* succeed: when connect() has rejected (PING rejected or a bootstrap command
\* failed), no CONNECTED message was delivered for that attempt, and the
\* connect overlay is still shown unless another attempt hid it.
C26_ConnectedOnlyOnSuccess ==
    \A i \in Attempts :
        attempts[i].pc = "failed" =>
            /\ attempts[i].connected = 0
            /\ (\A j \in Attempts \ {i} : attempts[j].pc = "idle") =>
                  app.overlay = "shown"

SentBy(fn) ==
    { k \in 1..Len(net) : net[k].owner # 0 /\ procs[net[k].owner].fn = fn }

\* ---- C21 --------------------------------------------------------------------
\* C21: whenever saveFile issues SAVE_FILE for the path P, the data it sends
\* is text that was loaded into the editor from P, in reading and in edit
\* mode, after any sequence of loadFile, toggleViewMode and Ctrl+S events.
C21_SaveSendsLoadedContent ==
    \A k \in SentBy("saveFile") :
        net[k].cmd = "SAVE_FILE" =>
            LoadedFrom(net[k].payload.data, net[k].payload.path)

\* ---- C22 --------------------------------------------------------------------
\* C22: the SAVE_FILE of saveYamlToFile and the WRITE of handleCheckboxClick
\* go to the path of the GET_FILE the call made before and carry text derived
\* from that file, even when loadFile changes currentPath while the call
\* awaits a reply or its 200 ms delay.
C22_WritesBackWhereRead ==
    \A k \in SentBy("saveYamlToFile") \cup SentBy("handleCheckboxClick") :
        net[k].cmd \in {"SAVE_FILE", "WRITE"} =>
            /\ net[k].payload.path = procs[net[k].owner].read
            /\ LoadedFrom(net[k].payload.data, procs[net[k].owner].read)

\* ---- C23 --------------------------------------------------------------------
\* C23: once all requests have completed, the preview and the properties
\* panel are those of currentPath: when the preview shows the current file
\* and the last outstanding RENDERED_FILE response arrives, whatever its
\* path, the preview still shows the current file afterwards.
C23_StaleRenderingIgnored ==
    [][(/\ app.preview = app.currentPath
        /\ last'.act = "reply"
        /\ last'.cmd = "GET_RENDERED_FILE"
        /\ last'.ok
        /\ net' = << >>)
            => app'.preview = app'.currentPath]_vars

\* ---- C27 --------------------------------------------------------------------
\* some saveYamlToFile call is between issuing its GET_FILE and finishing
YamlSaveRunning == \E i \in Procs : procs[i].fn = "saveYamlToFile"

\* C27: while a saveYamlToFile call is between issuing its GET_FILE and
\* finishing, a FILE response only loads the editor and toggles no view
\* mode, also when two calls overlap; and _yamlSaveInProgress is false once
\* every saveYamlToFile call has finished.
C27_YamlSaveUndisturbed ==
    /\ [](~YamlSaveRunning => ~app.yamlSaveInProgress)
    /\ [][(/\ YamlSaveRunning
           /\ last'.act = "reply"
           /\ last'.cmd = "GET_FILE"
           /\ last'.ok)
              => /\ app'.isReadingMode = app.isReadingMode
                 /\ app'.viewTimers = app.viewTimers]_vars

\* ---- C24 --------------------------------------------------------------------
\* C24: the double-toggle reload terminates: after a FILE response was
\* handled in reading mode (toggle to edit at once, toggle back after 50 ms)
\* the view comes to rest with no timer pending and no request outstanding,
\* whether the replies are faster or slower than the timer.
C24_DoubleToggleTerminates ==
    (app.viewTimers > 0) ~> (app.viewTimers = 0 /\ net = << >>)

\* ---- C28 --------------------------------------------------------------------
\* a call of handleCheckboxClick stands at the await of cmd
CheckboxAt(i, cmd) ==
    procs[i].fn = "handleCheckboxClick" /\ procs[i].pc = cmd

\* the step is the reply to the request that call i awaits
ReplyFor(i) == last'.act = "reply" /\ last'.owner = i

\* C28: after every checkbox click isCheckboxSaving returns to false: it is
\* set only together with the WRITE, so never when no task line was found;
\* a failed GET_FILE or WRITE clears it at once, a successful WRITE sets the
\* 100 ms timer that clears it; and while it is true a RENDERED_FILE message
\* changes no application state.
C28_CheckboxFlagReturns ==
    /\ app.isCheckboxSaving ~> ~app.isCheckboxSaving
    /\ [][/\ (~app.isCheckboxSaving /\ app'.isCheckboxSaving) =>
                \E i \in Procs :
                    /\ CheckboxAt(i, "GET_FILE")
                    /\ ReplyFor(i)
                    /\ procs'[i].pc = "WRITE"
          /\ \A i \in Procs :
                /\ (CheckboxAt(i, "GET_FILE") /\ ReplyFor(i)
                        /\ procs'[i].pc = "idle" /\ last'.ok) =>
                      app'.isCheckboxSaving = app.isCheckboxSaving
                /\ ((CheckboxAt(i, "GET_FILE") \/ CheckboxAt(i, "WRITE"))
                        /\ ReplyFor(i) /\ ~last'.ok) =>
                      ~app'.isCheckboxSaving
                /\ (CheckboxAt(i, "WRITE") /\ ReplyFor(i) /\ last'.ok) =>
                      /\ app'.isCheckboxSaving = app.isCheckboxSaving
                      /\ app'.checkTimers = app.checkTimers + 1
          /\ (/\ app.isCheckboxSaving
              /\ last'.act = "reply"
              /\ last'.cmd = "GET_RENDERED_FILE"
              /\ last'.ok) => ~last'.changed]_vars

C28_Witness ==
    /\ app.isCheckboxSaving
    /\ last.act = "reply"
    /\ last.cmd = "GET_RENDERED_FILE"
    /\ last.ok
    /\ app.pane = "loading"
    /\ app.checkTimers = 1

\* ---- C30 --------------------------------------------------------------------
\* the step issues a request of call i for cmd
Issues(i, cmd) ==
    \E k \in 1..Len(net') :
        /\ net'[k].owner = i
        /\ net'[k].cmd = cmd
        /\ \A j \in 1..Len(net) : net[j] # net'[k]

MutatingCmds == { MutatingCmd(fn) : fn \in MutatingFns }

\* C30: a vault-mutating operation issues GET_TREE only when the reply to
\* its mutating command has been received, issues nothing when that command
\* was rejected, and issues the GET_RENDERED_FILE of its loadFile only when
\* the GET_TREE reply has been received.
C30_MutateThenRefresh ==
    [][\A i \in Procs :
          /\ Issues(i, "GET_TREE") =>
                /\ procs[i].fn \in MutatingFns
                /\ ReplyFor(i)
                /\ last'.ok
                /\ last'.cmd = MutatingCmd(procs[i].fn)
          /\ (ReplyFor(i) /\ ~last'.ok) =>
                \A k \in 1..Len(net') : net'[k].owner # i
          /\ Issues(i, "GET_RENDERED_FILE") =>
                /\ ReplyFor(i)
                /\ last'.ok
                /\ last'.cmd = "GET_TREE"
                /\ net'[Len(net')].payload.path = NewPath]_vars

C30_Witness ==
    /\ last.act = "reply"
    /\ last.cmd = "GET_TREE"
    /\ last.ok
    /\ \E i \in Procs :
          /\ last.owner = i
          /\ procs[i].fn = "ctxRename"
          /\ procs[i].pc = "loadFile"
    /\ \E k \in 1..Len(net) :
          net[k].cmd = "GET_RENDERED_FILE" /\ net[k].payload.path = NewPath

\* ==== file trees ==============================================================
\* processFileData on file objects { path, tags } and on data.folders.
\* A string is written as the sequence of its pieces: "/", "#", and texts
\* that hold neither; "a/n.md" is << "a", "/", "n.md" >>.  A tree
\* { _files, _sub } is written as the function from the chain of _sub keys
\* that leads to a node (<< >> for the root) to the _files of that node, so
\* its domain is the set of nodes.  processFileData above is this function on
\* files without '/' and without tags, each given by its path.

\* keys that every object literal answers without having them: _sub is {},
\* and {}['constructor'] is the Object function
Inherited == { << "constructor" >> }

\* str.split('/')
RECURSIVE Split(_)
Split(str) ==
    IF str = << >> THEN << << >> >>
    ELSE IF Head(str) = "/" THEN << << >> >> \o Split(Tail(str))
    ELSE LET rest == Split(Tail(str))
         IN << << Head(str) >> \o Head(rest) >> \o Tail(rest)

\* parts after parts.pop()
Popped(parts) == SubSeq(parts, 1, Len(parts) - 1)

\* rawTag.replace('#', ''): the first '#' is removed
RECURSIVE RemoveHash(_)
RemoveHash(str) ==
    IF str = << >> THEN << >>
    ELSE IF Head(str) = "#" THEN Tail(str)
    ELSE << Head(str) >> \o RemoveHash(Tail(str))

\* allFolders.add(folderPath): a Set keeps the order of insertion
SetAdd(set, x) ==
    IF \E k \in 1..Len(set) : set[k] = x THEN set ELSE Append(set, x)

\* folderPath = folderPath ? `${folderPath}/${part}` : part, for each part
RECURSIVE AddFolders(_, _, _)
AddFolders(set, folderPath, parts) ==
    IF parts = << >> THEN set
    ELSE LET next == IF folderPath # << >>
                     THEN folderPath \o << "/" >> \o Head(parts)
                     ELSE Head(parts)
         IN AddFolders(SetAdd(set, next), next, Tail(parts))

\* new Set(folders), then the folders of every file path
RECURSIVE allFolders(_, _)
allFolders(set, files) ==
    IF files = << >> THEN set
    ELSE allFolders(AddFolders(set, << >>, Popped(Split(Head(files).path))),
                    Tail(files))

RECURSIVE SetOf(_, _)
SetOf(set, folders) ==
    IF folders = << >> THEN set
    ELSE SetOf(SetAdd(set, Head(folders)), Tail(folders))

\* { _files: [], _sub: {} }
NewTree == (<< >> :> << >>)

\* how a walk ends: with the tree it leaves, or thrown, in a TypeError
Walked(threw, tree) == [thrown |-> threw, tree |-> tree]

\* the walk that creates the nodes of one folder path, from the node at;
\* a key that is inherited is found and not created, and what is found has
\* no _sub: the next step throws a TypeError
RECURSIVE CreateNodes(_, _, _)
CreateNodes(tree, at, parts) ==
    IF parts = << >> THEN Walked(FALSE, tree)
    ELSE LET next == Append(at, Head(parts)) IN
         IF next \in DOMAIN tree THEN CreateNodes(tree, next, Tail(parts))
         ELSE IF Head(parts) \in Inherited
         THEN Walked(Tail(parts) # << >>, tree)
         ELSE CreateNodes(tree @@ (next :> << >>), next, Tail(parts))

\* allFolders.forEach(folderPath => ...)
RECURSIVE CreateFolders(_, _)
CreateFolders(tree, folders) ==
    IF folders = << >> THEN Walked(FALSE, tree)
    ELSE LET made == CreateNodes(tree, << >>, Split(Head(folders))) IN
         IF made.thrown THEN Walked(TRUE, NewTree)
         ELSE CreateFolders(made.tree, Tail(folders))

\* current = current._sub[part] for each part, then current._files.push(f):
\* a TypeError when the walk leaves the nodes
RECURSIVE PushFile(_, _, _, _)
PushFile(tree, at, parts, f) ==
    IF parts = << >> THEN Walked(FALSE, [tree EXCEPT ![at] = Append(@, f)])
    ELSE LET next == Append(at, Head(parts)) IN
         IF next \in DOMAIN tree THEN PushFile(tree, next, Tail(parts), f)
         ELSE Walked(TRUE, NewTree)

\* the walk of one tag: every node on the way is created when missing and
\* takes the file
RECURSIVE PushTag(_, _, _, _)
PushTag(tree, at, parts, f) ==
    IF parts = << >> THEN Walked(FALSE, tree)
    ELSE LET next == Append(at, Head(parts)) IN
         IF next \notin DOMAIN tree /\ Head(parts) \in Inherited
         THEN Walked(TRUE, NewTree)
         ELSE LET with == IF next \in DOMAIN tree THEN tree
                          ELSE tree @@ (next :> << >>)
              IN PushTag([with EXCEPT ![next] = Append(@, f)], next,
                         Tail(parts), f)

\* f.tags.forEach(rawTag => ...)
RECURSIVE PushTags(_, _, _)
PushTags(tree, tags, f) ==
    IF tags = << >> THEN Walked(FALSE, tree)
    ELSE LET pushed == PushTag(tree, << >>,
                               Split(RemoveHash(Head(tags))), f) IN
         IF pushed.thrown THEN Walked(TRUE, NewTree)
         ELSE PushTags(pushed.tree, Tail(tags), f)

\* files.forEach(f => ...): the file into its folder, then into its tags
RECURSIVE Populate(_, _, _)
Populate(folderTree, tagTree, files) ==
    IF files = << >>
    THEN [thrown |-> FALSE, folderTree |-> folderTree, tagTree |-> tagTree]
    ELSE LET f == Head(files)
             placed == PushFile(folderTree, << >>, Popped(Split(f.path)), f)
             tagged == PushTags(tagTree, f.tags, f)
         IN IF placed.thrown \/ tagged.thrown
            THEN [thrown |-> TRUE, folderTree |-> NewTree,
                  tagTree |-> NewTree]
            ELSE Populate(placed.tree, tagged.tree, Tail(files))

\* processFileData(data); thrown: it ended in a TypeError and returned
\* nothing
buildTrees(data) ==
    LET folders == allFolders(SetOf(<< >>, data.folders), data.files)
        made == CreateFolders(NewTree, folders)
        trees == IF made.thrown
                 THEN [thrown |-> TRUE, folderTree |-> NewTree,
                       tagTree |-> NewTree]
                 ELSE Populate(made.tree, NewTree, data.files)
    IN [thrown |-> trees.thrown,
        masterFileList |-> data.files,
        folderTree |-> trees.folderTree,
        tagTree |-> trees.tagTree]

\* ---- the inputs of processFileData ------------------------------------------
\* Files at the root, in a folder, in a folder of a folder, and in a folder
\* with an inherited name; with no tag, '#a', '#a/b', '#a/b' and '#a/c',
\* '#a' and '#a/b'; lists of up to two files, no two at one path;
\* data.folders absent or empty, an empty folder, an empty folder in a folder.
TreeInputs ==
    LET FilePaths ==
            { << "n.md" >>,
              << "a", "/", "n.md" >>,
              << "a", "/", "b", "/", "m.md" >>,
              << "constructor", "/", "n.md" >> }
        TagLists ==
            { << >>,
              << << "#", "a" >> >>,
              << << "#", "a", "/", "b" >> >>,
              << << "#", "a", "/", "b" >>, << "#", "a", "/", "c" >> >>,
              << << "#", "a" >>, << "#", "a", "/", "b" >> >> }
        FileObjects == [path : FilePaths, tags : TagLists]
        FileLists ==
            { << >> } \cup { << f >> : f \in FileObjects }
            \cup { fs \in FileObjects \X FileObjects :
                        fs[1].path # fs[2].path }
        FolderLists ==
            { << >>, << << "c" >> >>, << << "a", "/", "c" >> >> }
    IN [files : FileLists, folders : FolderLists]

\* a page that is about to call processFileData(data)
TreeInit ==
    /\ authHash = Null
    /\ attempts = [i \in Attempts |-> IdleAttempt]
    /\ reqs = [o \in Owners |-> << >>]
    /\ app = InitialApp
    /\ btn = [disabled |-> FALSE, text |-> "Connect"]
    /\ statusText = ""
    /\ ops = 0
    /\ disconnects = 0
    /\ thrown = ""
    /\ call \in { [fn |-> "", data |-> data] : data \in TreeInputs }
    /\ remote = IdleRemote
    /\ net = << >>
    /\ procs = [i \in Procs |-> IdleProc]
    /\ last = NoStep

\* processFileData(data)
CallProcessFileData ==
    /\ call.fn = ""
    /\ call' = [fn |-> "processFileData", data |-> call.data,
                result |-> buildTrees(call.data)]
    /\ UNCHANGED << authHash, attempts, reqs, app, btn, statusText, ops,
                    disconnects, thrown, remote, net, procs, last >>

TreeSpec == TreeInit /\ [][CallProcessFileData]_vars

\* ==== properties of navigation ===============================================

\* the calls of loadFile made by the user (not the one inside navigateBack)
LoadFileRan == last.act = "loadFile"

\* C31: navigationHistory never holds more than 50 entries after any sequence
\* of loadFile and navigateBack calls; loadFile(path) appends the previous
\* currentPath only when it is set and differs from path, and drops the
\* oldest entry when the limit is exceeded.
C31_HistoryBounded ==
    /\ Len(app.navigationHistory) <= 50
    /\ LoadFileRan =>
          LET h == last.before IN
          IF last.was # "" /\ last.was # last.path
          THEN IF Len(h) = 50
               THEN app.navigationHistory =
                        SubSeq(h, 2, 50) \o << last.was >>
               ELSE app.navigationHistory = h \o << last.was >>
          ELSE app.navigationHistory = h

\* the 51st entry was pushed and the oldest one dropped
C31_Witness ==
    /\ LoadFileRan
    /\ Len(last.before) = 50
    /\ last.was # last.path
    /\ Len(app.navigationHistory) = 50
    /\ app.navigationHistory[50] = last.was

NavigateBackRan == last.act = "navigateBack"

\* C32: navigateBack with the history h followed by a last entry p sets
\* currentPath to p and leaves navigationHistory equal to h, so the path that
\* was current is not added back; with an empty history it changes nothing
\* and issues no command.
C32_BackPops ==
    /\ [](NavigateBackRan /\ Len(last.before) > 0 =>
            /\ app.currentPath = last.before[Len(last.before)]
            /\ app.navigationHistory =
                    SubSeq(last.before, 1, Len(last.before) - 1)
            /\ last.sent = 1)
    /\ [][last'.act = "navigateBack" /\ Len(app.navigationHistory) = 0 =>
            /\ app' = app
            /\ net' = net
            /\ last'.sent = 0]_vars

\* back from b.md over a history of two entries or more
C32_Witness ==
    /\ NavigateBackRan
    /\ Len(last.before) >= 2
    /\ last.was # last.before[Len(last.before)]
    /\ app.currentPath = last.before[Len(last.before)]
    /\ Len(app.navigationHistory) = Len(last.before) - 1

\* C33: after any loadFile or navigateBack call has run, the back button is
\* displayed if and only if navigationHistory is non-empty.
C33_BackBtnIffHistory ==
    (LoadFileRan \/ NavigateBackRan) =>
        (app.backBtn <=> Len(app.navigationHistory) > 0)

\* ==== properties of the file trees ==========================================

Returned == call.fn = "processFileData"

\* the number of times f is in the list
Occurrences(list, f) == Cardinality({ k \in 1..Len(list) : list[k] = f })

FilesIn(data) == { data.files[k] : k \in 1..Len(data.files) }

\* the directory components of a path
DirsOf(path) == Popped(Split(path))

\* C34: for every input of processFileData, in the returned folderTree each
\* file occurs in exactly one node's _files, namely the node reached from the
\* root by the directory components of its path (the root for a path without
\* '/'), and a node exists for every folder listed in data.folders and for
\* every ancestor directory of every file.
C34_FolderTree ==
    Returned =>
        LET tree == call.result.folderTree IN
        /\ ~call.result.thrown
        /\ \A f \in FilesIn(call.data) :
              /\ DirsOf(f.path) \in DOMAIN tree
              /\ \A node \in DOMAIN tree :
                    Occurrences(tree[node], f) =
                        IF node = DirsOf(f.path) THEN 1 ELSE 0
              /\ \A n \in 1..Len(DirsOf(f.path)) :
                    SubSeq(DirsOf(f.path), 1, n) \in DOMAIN tree
        /\ \A k \in 1..Len(call.data.folders) :
              Split(call.data.folders[k]) \in DOMAIN tree

\* the nodes on the way of a tag
TagNodes(rawTag) ==
    { SubSeq(Split(RemoveHash(rawTag)), 1, n) :
        n \in 1..Len(Split(RemoveHash(rawTag))) }

TagNodesOf(f) == UNION { TagNodes(f.tags[k]) : k \in 1..Len(f.tags) }

\* C35: for every input of processFileData, in the returned tagTree a file
\* carrying tag '#a/b' occurs in the _files of node a and of node a/b, a file
\* occurs in no tag node that is not a prefix of one of its tags, and a file
\* occurs at most once in any tag node's _files whatever set of tags it
\* carries.
C35_TagTree ==
    Returned /\ ~call.result.thrown =>
        LET tree == call.result.tagTree IN
        \A f \in FilesIn(call.data) :
            /\ \A node \in TagNodesOf(f) :
                  node \in DOMAIN tree /\ Occurrences(tree[node], f) >= 1
            /\ \A node \in DOMAIN tree \ TagNodesOf(f) :
                  Occurrences(tree[node], f) = 0
            /\ \A node \in DOMAIN tree : Occurrences(tree[node], f) <= 1

====
